---- MODULE Spec2Model ----
(***************************************************************************)
(* A model of scan_project.py: ProjectScanner, its ignore matcher          *)
(* (_load_gitignore, _is_ignored), its definition extractor                *)
(* (_get_definitions) and its tree walk (scan).                            *)
(*                                                                         *)
(* Strings are sequences of one-character strings, so that basename,       *)
(* relpath, rstrip, replace, count and fnmatch are computed character by   *)
(* character as the Python library computes them (POSIX paths).            *)
(***************************************************************************)
EXTENDS Integers, Sequences, FiniteSets, TLC

VARIABLES
    root_path,        \* self.root_path, already absolute (line 7)
    gitignore,        \* the project's .gitignore as the file system holds it
    project,          \* the directory tree under root_path
    ignore_patterns,  \* self.ignore_patterns (line 9)
    pc,               \* where the program is
    stack,            \* directories os.walk has still to yield (line 97)
    output,           \* the lines log() has written (lines 80-86)
    calls,            \* history: every _is_ignored call and its result
    extracted,        \* history: every _get_definitions call and its result
    visited,          \* history: every directory os.walk yielded
    query,            \* the last _is_ignored probe
    source,           \* the file content handed to _get_definitions
    definitions       \* what _get_definitions returned for source

vars == <<root_path, gitignore, project, ignore_patterns, pc, stack, output,
          calls, extracted, visited, query, source, definitions>>

(***************************************************************************)
(* Bounds of the model.                                                    *)
(***************************************************************************)
MaxLines == 2   \* lines of a .gitignore
MaxNodes == 3   \* nodes of a parsed file below its Module node

(***************************************************************************)
(* String literals.                                                        *)
(***************************************************************************)
SEP == "/"

s_git == <<".", "g", "i", "t">>
s_idea == <<".", "i", "d", "e", "a">>
s_vscode == <<".", "v", "s", "c", "o", "d", "e">>
s_pycache == <<"_", "_", "p", "y", "c", "a", "c", "h", "e", "_", "_">>
s_star_pyc == <<"*", ".", "p", "y", "c">>
s_star_pyo == <<"*", ".", "p", "y", "o">>
s_DS_Store == <<".", "D", "S", "_", "S", "t", "o", "r", "e">>
s_venv == <<"v", "e", "n", "v">>
s_env == <<"e", "n", "v">>
s_dotenv == <<".", "e", "n", "v">>
s_gitignore == <<".", "g", "i", "t", "i", "g", "n", "o", "r", "e">>
s_dot_py == <<".", "p", "y">>
s_curdir == <<".">>
s_pardir == <<".", ".">>

s_src == <<"s", "r", "c">>
s_tmp == <<"t", "m", "p">>
s_other == <<"o", "t", "h", "e", "r">>
s_build == <<"b", "u", "i", "l", "d">>
s_a == <<"a">>
s_r == <<"r">>
s_src_tmp == <<"s", "r", "c", "/", "t", "m", "p">>
s_a_py == <<"a", ".", "p", "y">>
s_b_py == <<"b", ".", "p", "y">>
s_m_py == <<"m", ".", "p", "y">>
s_t_py == <<"t", ".", "p", "y">>
s_x_pyc == <<"x", ".", "p", "y", "c">>
s_notes == <<"n", "o", "t", "e", "s">>

s_run == <<"r", "u", "n">>
s_helper == <<"_", "h">>
s_Foo == <<"F", "o", "o">>
s_uFoo == <<"_", "F", "o", "o">>

(***************************************************************************)
(* Python's str methods.                                                   *)
(***************************************************************************)
Whitespace == {" ", "\t", "\n", "\r"}

startswith(s, p) ==
    /\ Len(p) <= Len(s)
    /\ SubSeq(s, 1, Len(p)) = p

endswith(s, p) ==
    /\ Len(p) <= Len(s)
    /\ SubSeq(s, Len(s) - Len(p) + 1, Len(s)) = p

\* s.rstrip(chars): s up to its last character that is not in chars.
rstrip(s, chars) ==
    LET keep == {i \in 1..Len(s) : s[i] \notin chars}
        n == IF keep = {} THEN 0 ELSE CHOOSE i \in keep : \A j \in keep : j <= i
    IN  SubSeq(s, 1, n)

\* s.lstrip(chars): s from its first character that is not in chars.
lstrip(s, chars) ==
    LET keep == {i \in 1..Len(s) : s[i] \notin chars}
        n == IF keep = {} THEN Len(s) + 1
             ELSE CHOOSE i \in keep : \A j \in keep : i <= j
    IN  SubSeq(s, n, Len(s))

strip(s) == rstrip(lstrip(s, Whitespace), Whitespace)

\* s.replace(old, new): the non-overlapping occurrences of old, left to right.
RECURSIVE replaceFrom(_, _, _, _)
replaceFrom(s, old, new, i) ==
    IF i > Len(s) THEN <<>>
    ELSE IF i + Len(old) - 1 <= Len(s) /\ SubSeq(s, i, i + Len(old) - 1) = old
         THEN new \o replaceFrom(s, old, new, i + Len(old))
         ELSE <<s[i]>> \o replaceFrom(s, old, new, i + 1)

replace(s, old, new) == replaceFrom(s, old, new, 1)

\* s.count(c) for a one-character c.
count(s, c) == Cardinality({i \in 1..Len(s) : s[i] = c})

\* s.split(sep) for a one-character sep.
split(s, c) ==
    LET cuts == <<0>> \o SelectSeq([i \in 1..Len(s) |-> i], LAMBDA i : s[i] = c)
                     \o <<Len(s) + 1>>
    IN  [k \in 1..(Len(cuts) - 1) |-> SubSeq(s, cuts[k] + 1, cuts[k + 1] - 1)]

(***************************************************************************)
(* os.path (posixpath).                                                    *)
(***************************************************************************)
basename(p) ==
    LET seps == {i \in 1..Len(p) : p[i] = SEP}
        i == IF seps = {} THEN 0 ELSE CHOOSE k \in seps : \A j \in seps : j <= k
    IN  SubSeq(p, i + 1, Len(p))

join(a, b) ==
    IF startswith(b, <<SEP>>) THEN b
    ELSE IF a = <<>> \/ endswith(a, <<SEP>>) THEN a \o b
    ELSE a \o <<SEP>> \o b

RECURSIVE joinAll(_)
joinAll(parts) ==
    IF Len(parts) = 1 THEN parts[1] ELSE join(parts[1], joinAll(Tail(parts)))

components(p) == SelectSeq(split(p, SEP), LAMBDA x : x # <<>>)

RECURSIVE commonLen(_, _)
commonLen(a, b) ==
    IF a = <<>> \/ b = <<>> \/ Head(a) # Head(b) THEN 0
    ELSE 1 + commonLen(Tail(a), Tail(b))

\* os.path.relpath(path, start), both absolute.
relpath(path, start) ==
    LET start_list == components(start)
        path_list == components(path)
        i == commonLen(start_list, path_list)
        rel_list == [k \in 1..(Len(start_list) - i) |-> s_pardir]
                    \o SubSeq(path_list, i + 1, Len(path_list))
    IN  IF rel_list = <<>> THEN s_curdir ELSE joinAll(rel_list)

(***************************************************************************)
(* fnmatch.fnmatch(name, pat) on POSIX: normcase is the identity, '*'      *)
(* matches any run of characters (separators included), '?' exactly one,   *)
(* every other character itself, and the whole name must match.  No        *)
(* pattern of the model holds a '[', so bracket classes do not arise.      *)
(***************************************************************************)
RECURSIVE fnmatch(_, _)
fnmatch(name, pat) ==
    IF pat = <<>> THEN name = <<>>
    ELSE IF Head(pat) = "*"
         THEN \/ fnmatch(name, Tail(pat))
              \/ name # <<>> /\ fnmatch(Tail(name), pat)
    ELSE IF Head(pat) = "?"
         THEN name # <<>> /\ fnmatch(Tail(name), Tail(pat))
    ELSE name # <<>> /\ Head(name) = Head(pat) /\ fnmatch(Tail(name), Tail(pat))

(***************************************************************************)
(* ProjectScanner._load_gitignore.                                         *)
(*                                                                         *)
(* A .gitignore is [exists, lines, fails, yielded]: whether the file       *)
(* exists, its lines, whether reading it raises, and how many lines the    *)
(* iteration `for line in f` yields before it raises (0: open() or the     *)
(* first read raises; fewer than all when it raises part-way; every line   *)
(* when nothing raises).                                                   *)
(***************************************************************************)
DefaultPatterns ==
    <<s_git, s_idea, s_vscode, s_pycache, s_star_pyc, s_star_pyo,
      s_DS_Store, s_venv, s_env, s_dotenv>>

\* AppendLine without line 29's rstrip('/').
AppendLine_keepSlash(patterns, raw) ==
    LET line == strip(raw)
    IN  IF line # <<>> /\ ~startswith(line, <<"#">>)
        THEN Append(patterns, line)
        ELSE patterns

\* Lines 26-29: one line of the file, appended to patterns or skipped.
AppendLine(patterns, raw) ==
    LET line == strip(raw)
    IN  IF line # <<>> /\ ~startswith(line, <<"#">>)
        THEN Append(patterns, rstrip(line, {SEP}))
        ELSE patterns

RECURSIVE ReadLines(_, _)
ReadLines(patterns, lines) ==
    IF lines = <<>> THEN patterns
    ELSE ReadLines(AppendLine(patterns, Head(lines)), Tail(lines))

\* The except clause (lines 30-31) prints and falls through to `return
\* patterns`: the list the loop appended to before the failure.
load_gitignore(gi) ==
    IF gi.exists
    THEN ReadLines(DefaultPatterns, SubSeq(gi.lines, 1, gi.yielded))
    ELSE DefaultPatterns

(***************************************************************************)
(* ProjectScanner._is_ignored.                                             *)
(***************************************************************************)
\* MatchesPattern without rule 1 (line 46).
MatchesPattern_noName(name, rel_path, is_dir, pattern) ==
    \/ fnmatch(rel_path, pattern)
    \/ is_dir /\ fnmatch(name, rstrip(pattern, {SEP}))

\* MatchesPattern whose rule 1 compares the name with the pattern's last
\* component, as git does for a pattern such as src/tmp.
MatchesPattern_lastComponent(name, rel_path, is_dir, pattern) ==
    \/ fnmatch(name, basename(pattern))
    \/ fnmatch(rel_path, pattern)
    \/ is_dir /\ fnmatch(name, rstrip(pattern, {SEP}))

\* Lines 45-53: the three rules, for one pattern.
MatchesPattern(name, rel_path, is_dir, pattern) ==
    \/ fnmatch(name, pattern)
    \/ fnmatch(rel_path, pattern)
    \/ is_dir /\ fnmatch(name, rstrip(pattern, {SEP}))

is_ignored(path, is_dir, root, patterns) ==
    LET name == basename(path)
        rel_path == relpath(path, root)
    IN  IF rel_path = s_curdir THEN FALSE
        ELSE \E i \in 1..Len(patterns) :
                 MatchesPattern(name, rel_path, is_dir, patterns[i])

(***************************************************************************)
(* ProjectScanner._get_definitions.                                        *)
(*                                                                         *)
(* A source file is [readable, text, tree]: whether open()/read() succeed, *)
(* what the content is ("blank", "garbled": ast.parse raises, or "code"),  *)
(* and for code the tree ast.parse returns.  A tree is [n, parent, type,   *)
(* name]: nodes 1..n below the Module node 0, each with its parent, its    *)
(* ast class and its name; a node's children are in index order.           *)
(***************************************************************************)
children(tree, p) ==
    SelectSeq([i \in 1..tree.n |-> i], LAMBDA i : tree.parent[i] = p)

\* ast.walk: breadth first from the Module node (a deque of nodes to do).
RECURSIVE walkFrom(_, _)
walkFrom(tree, todo) ==
    IF todo = <<>> THEN <<>>
    ELSE <<Head(todo)>> \o walkFrom(tree, Tail(todo) \o children(tree, Head(todo)))

\* A walk of the Module node and its own children only.
walk_topLevel(tree) == <<0>> \o children(tree, 0)

walk(tree) == walkFrom(tree, <<0>>)

\* DefinitionOf that marks every function public.
DefinitionOf_allPublic(tree, i) ==
    IF tree.type[i] \in {"FunctionDef", "AsyncFunctionDef"}
    THEN <<[marker |-> "bolt", keyword |-> "def", name |-> tree.name[i]]>>
    ELSE IF tree.type[i] = "ClassDef"
    THEN <<[marker |-> "box", keyword |-> "class", name |-> tree.name[i]]>>
    ELSE <<>>

\* Lines 69-74.  The markers stand for the emoji of the source: "lock" for
\* the padlock of a private function, "bolt" for the lightning of a public
\* one, "box" for the package of a class.
DefinitionOf(tree, i) ==
    IF tree.type[i] \in {"FunctionDef", "AsyncFunctionDef"}
    THEN <<[marker |-> IF startswith(tree.name[i], <<"_">>) THEN "lock" ELSE "bolt",
            keyword |-> "def", name |-> tree.name[i]]>>
    ELSE IF tree.type[i] = "ClassDef"
    THEN <<[marker |-> "box", keyword |-> "class", name |-> tree.name[i]]>>
    ELSE <<>>

RECURSIVE Collect(_, _)
Collect(tree, nodes) ==
    IF nodes = <<>> THEN <<>>
    ELSE (IF Head(nodes) = 0 THEN <<>> ELSE DefinitionOf(tree, Head(nodes)))
         \o Collect(tree, Tail(nodes))

\* The body of the try (lines 62-74): what was appended to definitions, and
\* whether an exception left the block.
TryBody(src) ==
    IF ~src.readable THEN [raised |-> TRUE, defs |-> <<>>]
    ELSE IF src.text = "blank"
         THEN [raised |-> FALSE, defs |-> <<>>]
    ELSE IF src.text = "garbled"
         THEN [raised |-> TRUE, defs |-> <<>>]
    ELSE [raised |-> FALSE, defs |-> Collect(src.tree, walk(src.tree))]

\* _get_definitions without its except clause: the exception leaves it.
get_definitions_noExcept(src) == TryBody(src)

\* Lines 75-78: `except Exception: pass`, then `return definitions`.
get_definitions(src) ==
    LET r == TryBody(src)
    IN  [raised |-> FALSE, defs |-> r.defs]

(***************************************************************************)
(* ProjectScanner.scan: one os.walk iteration.                             *)
(*                                                                         *)
(* A directory is [dirs, files]: its subdirectories [name, node] and its   *)
(* files [name, src], in the order os.walk lists them.  An entry of the    *)
(* walk is [path, node, depth]: the directory's path, what it holds, and   *)
(* (history only) how many levels below the root it lies.                  *)
(***************************************************************************)
IndentWidth == 4
RuleWidth == 40

\* Line 103.
LevelOf(root, top_path) == count(replace(top_path, root, <<>>), SEP)

Line(kind, indent, text, path, depth) ==
    [kind |-> kind, indent |-> indent, text |-> text, path |-> path,
     depth |-> depth]

Call(path, is_dir, root, patterns) ==
    [path |-> path, is_dir |-> is_dir, patterns |-> patterns,
     result |-> is_ignored(path, is_dir, root, patterns)]

\* The query made with the directory being listed, not its subdirectory.
DirQueryPath_top(top_path, d) == top_path

\* Line 100: the path each subdirectory is queried under.
DirQueryPath(top_path, d) == join(top_path, d)

\* Line 100: one _is_ignored call per subdirectory.
DirCalls(top, root, patterns) ==
    [i \in 1..Len(top.node.dirs) |->
        Call(DirQueryPath(top.path, top.node.dirs[i].name), TRUE, root, patterns)]

\* The filter's result thrown away: os.walk descends everywhere.
KeptDirs_all(top, root, patterns) == top.node.dirs

\* Line 100: dirs[:] keeps the subdirectories that are not ignored.
KeptDirs(top, root, patterns) ==
    SelectSeq(top.node.dirs,
              LAMBDA d : ~is_ignored(join(top.path, d.name), TRUE, root, patterns))

\* Lines 121-124: the definition lines of one file.
DefLines(defs, level, full_path, depth) ==
    [i \in 1..Len(defs) |->
        Line("def", IndentWidth * (level + 2), defs[i], full_path, depth + 2)]

\* Lines 115-124: the body of the loop over files, for one file: the
\* _is_ignored call, the lines written, the _get_definitions call if one is
\* made, and whether an exception left it.
FileStep(file, top, level, root, patterns) ==
    LET full_path == join(top.path, file.name)
        c == Call(full_path, FALSE, root, patterns)
        listed == ~c.result /\ endswith(file.name, s_dot_py)
        r == get_definitions(file.src)
        fileLine == Line("file", IndentWidth * (level + 1), file.name,
                         full_path, top.depth + 1)
    IN  IF ~listed
        THEN [out |-> <<>>, calls |-> <<c>>, extracted |-> <<>>,
              raised |-> FALSE]
        ELSE [out |-> <<fileLine>>
                      \o (IF r.raised THEN <<>>
                          ELSE DefLines(r.defs, level, full_path, top.depth)),
              calls |-> <<c>>,
              extracted |-> <<[path |-> full_path, src |-> file.src,
                               raised |-> r.raised, defs |-> r.defs]>>,
              raised |-> r.raised]

RECURSIVE Flatten(_)
Flatten(seqs) ==
    IF seqs = <<>> THEN <<>> ELSE Head(seqs) \o Flatten(Tail(seqs))

\* Lines 97-124: the body of the for loop, for the directory os.walk yields.
\* The loop over files (line 114) runs to the last file, or to the first
\* one at which an exception leaves _get_definitions.
WalkBody(top, root, patterns) ==
    LET level == LevelOf(root, top.path)
        folderLine ==
            IF top.path # root
            THEN <<Line("dir", IndentWidth * level, basename(top.path),
                        top.path, top.depth)>>
            ELSE <<>>
        files == top.node.files
        steps == [i \in 1..Len(files) |->
                     FileStep(files[i], top, level, root, patterns)]
        raising == {i \in 1..Len(files) : steps[i].raised}
        last == IF raising = {} THEN Len(files)
                ELSE CHOOSE i \in raising : \A j \in raising : i <= j
    IN  [out |-> folderLine \o Flatten([i \in 1..last |-> steps[i].out]),
         calls |-> DirCalls(top, root, patterns)
                   \o Flatten([i \in 1..last |-> steps[i].calls]),
         extracted |-> Flatten([i \in 1..last |-> steps[i].extracted]),
         raised |-> raising # {}]

\* os.walk, top down: the kept subdirectories are walked next, in order,
\* before the directories already waiting.
Descend(top, root, patterns) ==
    LET kept == KeptDirs(top, root, patterns)
    IN  [i \in 1..Len(kept) |->
            [path |-> join(top.path, kept[i].name), node |-> kept[i].node,
             depth |-> top.depth + 1]]

(***************************************************************************)
(* The inputs of a scan.                                                   *)
(***************************************************************************)
RootPaths == {<<SEP, "r">>, <<SEP>>}

ScanLines == {s_src_tmp \o <<"\n">>, s_build \o <<SEP, "\n">>}

RECURSIVE SeqsUpTo(_, _)
SeqsUpTo(S, n) ==
    IF n = 0 THEN {<<>>}
    ELSE LET shorter == SeqsUpTo(S, n - 1)
         IN  shorter \cup {Append(s, x) : s \in {y \in shorter : Len(y) = n - 1},
                                          x \in S}

\* Every way a .gitignore with the given lines can be, or fail to be, read.
GitignoresOf(LineSet) ==
    {[exists |-> FALSE, lines |-> <<>>, fails |-> FALSE, yielded |-> 0]}
    \cup {[exists |-> TRUE, lines |-> ls, fails |-> FALSE, yielded |-> Len(ls)] :
             ls \in SeqsUpTo(LineSet, MaxLines)}
    \cup UNION {{[exists |-> TRUE, lines |-> ls, fails |-> TRUE, yielded |-> k] :
                    k \in {j \in 0..Len(ls) : j = 0 \/ j < Len(ls)}} :
                        ls \in SeqsUpTo(LineSet, MaxLines)}

NoTree == [n |-> 0, parent |-> <<>>, type |-> <<>>, name |-> <<>>]

\* class Foo with a method _h, and an async function run.
GoodTree ==
    [n |-> 4, parent |-> <<0, 1, 2, 0>>,
     type |-> <<"ClassDef", "FunctionDef", "Pass", "AsyncFunctionDef">>,
     name |-> <<s_Foo, s_helper, <<>>, s_run>>]

GoodSource == [readable |-> TRUE, text |-> "code", tree |-> GoodTree]

ScanSources ==
    {GoodSource,
     [readable |-> TRUE, text |-> "garbled", tree |-> NoTree],
     [readable |-> TRUE, text |-> "blank", tree |-> NoTree],
     [readable |-> FALSE, text |-> "code", tree |-> GoodTree]}

File(name, src) == [name |-> name, src |-> src]

Dir(dirs, files) == [dirs |-> dirs, files |-> files]

Sub(name, node) == [name |-> name, node |-> node]

Project(n1, n2, n3, src, hasGitignore) ==
    Dir(<<Sub(n1, Dir(<<Sub(n3, Dir(<<>>, <<File(s_b_py, GoodSource)>>))>>,
                      <<File(s_m_py, src)>>)),
          Sub(n2, Dir(<<>>, <<File(s_x_pyc, GoodSource), File(s_t_py, GoodSource)>>))>>,
        <<File(s_a_py, src), File(s_notes, GoodSource)>>
        \o (IF hasGitignore THEN <<File(s_gitignore, GoodSource)>> ELSE <<>>))

EmptyProject == Dir(<<>>, <<>>)

NoQuery == [path |-> <<>>, is_dir |-> FALSE, result |-> FALSE]

NoSource == [readable |-> FALSE, text |-> "blank", tree |-> NoTree]

(***************************************************************************)
(* The scan: __init__, then scan().                                        *)
(***************************************************************************)
Init ==
    /\ root_path \in RootPaths
    /\ gitignore \in GitignoresOf(ScanLines)
    /\ \E n1 \in {s_src, s_venv, s_r}, n2 \in {s_other, s_build},
          n3 \in {s_tmp, s_pycache}, src \in ScanSources :
           project = Project(n1, n2, n3, src, gitignore.exists)
    /\ ignore_patterns = <<>>
    /\ pc = "new"
    /\ stack = <<>>
    /\ output = <<>>
    /\ calls = <<>>
    /\ extracted = <<>>
    /\ visited = <<>>
    /\ query = NoQuery
    /\ source = NoSource
    /\ definitions = <<>>

\* Lines 6-10.
Construct ==
    /\ pc = "new"
    /\ ignore_patterns' = load_gitignore(gitignore)
    /\ pc' = "constructed"
    /\ UNCHANGED <<root_path, gitignore, project, stack, output, calls,
                   extracted, visited, query, source, definitions>>

\* Lines 89-97: the header, and os.walk starts at the root.
ScanStart ==
    /\ pc = "constructed"
    /\ output' = <<Line("header", 0, basename(root_path), root_path, 0),
                   Line("rule", 0, [i \in 1..RuleWidth |-> "="], root_path, 0)>>
    /\ stack' = <<[path |-> root_path, node |-> project, depth |-> 0]>>
    /\ pc' = "walking"
    /\ UNCHANGED <<root_path, gitignore, project, ignore_patterns, calls,
                   extracted, visited, query, source, definitions>>

\* Lines 97-124: one iteration of the for loop.
WalkStep ==
    /\ pc = "walking"
    /\ stack # <<>>
    /\ \E top \in {Head(stack)} :
       \E r \in {WalkBody(top, root_path, ignore_patterns)} :
           /\ output' = output \o r.out
           /\ calls' = calls \o r.calls
           /\ extracted' = extracted \o r.extracted
           /\ visited' = Append(visited, top)
           /\ IF r.raised
              THEN pc' = "crashed" /\ stack' = stack
              ELSE /\ pc' = pc
                   /\ stack' = Descend(top, root_path, ignore_patterns)
                               \o Tail(stack)
    /\ UNCHANGED <<root_path, gitignore, project, ignore_patterns, query,
                   source, definitions>>

\* Line 126: os.walk is exhausted.
ScanEnd ==
    /\ pc = "walking"
    /\ stack = <<>>
    /\ pc' = "done"
    /\ UNCHANGED <<root_path, gitignore, project, ignore_patterns, stack,
                   output, calls, extracted, visited, query, source,
                   definitions>>

Next == Construct \/ ScanStart \/ WalkStep \/ ScanEnd

Spec == Init /\ [][Next]_vars

(***************************************************************************)
(* _is_ignored on its own: the scanner is constructed, then probed with    *)
(* paths under (and at) the root, as a directory and as a file.            *)
(***************************************************************************)
BuiltinNames ==
    {s_git, s_idea, s_vscode, s_pycache, s_DS_Store, s_venv, s_env, s_dotenv}

MatchLines ==
    {s_src_tmp \o <<"\n">>, s_build \o <<SEP, "\n">>, s_build \o <<"\n">>,
     <<"#", " ", "c", "\n">>, <<"\n">>}

ProbeParents == {<<>>, s_other, s_src, join(s_a, s_src)}

ProbeNames == BuiltinNames \cup {s_tmp, s_build, s_x_pyc}

ProbePaths(root) ==
    {root} \cup {join(root, join(parent, name)) :
                    parent \in ProbeParents, name \in ProbeNames}

MatchInit ==
    /\ root_path \in RootPaths
    /\ gitignore \in GitignoresOf(MatchLines)
    /\ project = EmptyProject
    /\ ignore_patterns = <<>>
    /\ pc = "new"
    /\ stack = <<>>
    /\ output = <<>>
    /\ calls = <<>>
    /\ extracted = <<>>
    /\ visited = <<>>
    /\ query = NoQuery
    /\ source = NoSource
    /\ definitions = <<>>

\* Lines 34-54, for one path and one is_dir.
Probe ==
    /\ pc = "constructed"
    /\ \E path \in ProbePaths(root_path), is_dir \in BOOLEAN :
           query' = [path |-> path, is_dir |-> is_dir,
                     result |-> is_ignored(path, is_dir, root_path,
                                           ignore_patterns)]
    /\ pc' = "probed"
    /\ UNCHANGED <<root_path, gitignore, project, ignore_patterns, stack,
                   output, calls, extracted, visited, source, definitions>>

MatchNext == Construct \/ Probe

MatchSpec == MatchInit /\ [][MatchNext]_vars

(***************************************************************************)
(* _get_definitions on its own, for every source file of up to MaxNodes    *)
(* nodes.                                                                  *)
(***************************************************************************)
NodeLabels ==
    {[type |-> "FunctionDef", name |-> s_run],
     [type |-> "FunctionDef", name |-> s_helper],
     [type |-> "AsyncFunctionDef", name |-> s_run],
     [type |-> "AsyncFunctionDef", name |-> s_helper],
     [type |-> "ClassDef", name |-> s_Foo],
     [type |-> "ClassDef", name |-> s_uFoo],
     [type |-> "If", name |-> <<>>]}

\* The tree of n nodes with the given parents and labels.
TreeOf(n, p, l) ==
    [n |-> n, parent |-> p, type |-> [i \in 1..n |-> l[i].type],
     name |-> [i \in 1..n |-> l[i].name]]

\* A source file: code of up to MaxNodes nodes, readable or not, or
\* something ast.parse rejects, or nothing but whitespace.
IsSource(src) ==
    \E n \in 0..MaxNodes :
    \E p \in [1..n -> 0..(n - 1)], l \in [1..n -> NodeLabels] :
        /\ \A i \in 1..n : p[i] < i
        /\ \/ src = [readable |-> TRUE, text |-> "code", tree |-> TreeOf(n, p, l)]
           \/ n = 1 /\ src = [readable |-> FALSE, text |-> "code",
                               tree |-> TreeOf(n, p, l)]
           \/ n = 0 /\ src = [readable |-> TRUE, text |-> "garbled",
                               tree |-> NoTree]
           \/ n = 0 /\ src = [readable |-> TRUE, text |-> "blank",
                               tree |-> NoTree]

ExtractInit ==
    /\ root_path \in {<<SEP, "r">>}
    /\ gitignore = [exists |-> FALSE, lines |-> <<>>, fails |-> FALSE,
                    yielded |-> 0]
    /\ project = EmptyProject
    /\ ignore_patterns = <<>>
    /\ pc = "new"
    /\ stack = <<>>
    /\ output = <<>>
    /\ calls = <<>>
    /\ extracted = <<>>
    /\ visited = <<>>
    /\ query = NoQuery
    /\ IsSource(source)
    /\ definitions = <<>>

\* Lines 56-78, for one file.
Extract ==
    /\ pc = "new"
    /\ \E r \in {get_definitions(source)} :
           /\ definitions' = r.defs
           /\ pc' = IF r.raised THEN "crashed" ELSE "extracted"
    /\ UNCHANGED <<root_path, gitignore, project, ignore_patterns, stack,
                   output, calls, extracted, visited, query, source>>

ExtractNext == Extract

ExtractSpec == ExtractInit /\ [][ExtractNext]_vars

(***************************************************************************)
(* The properties.                                                         *)
(***************************************************************************)
Indices(s) == 1..Len(s)

\* Path p lies strictly beneath directory d.
Beneath(p, d) == startswith(p, d \o <<SEP>>)

Loaded == pc \in {"constructed", "probed"}

Failing(src) == ~src.readable \/ src.text = "garbled"

\* C1: during a scan, once _is_ignored has returned true for a directory D,
\* nothing beneath D is ever passed to _is_ignored or to _get_definitions,
\* neither D nor anything beneath it is yielded by os.walk or waits to be,
\* and no output line is about D or about a path beneath D.
C1_PrunedSubtreesNeverVisited ==
    \A i \in Indices(calls) :
        (calls[i].is_dir /\ calls[i].result) =>
            LET D == calls[i].path
                Outside(p) == p # D /\ ~Beneath(p, D)
            IN  /\ \A j \in Indices(calls) : ~Beneath(calls[j].path, D)
                /\ \A j \in Indices(extracted) : Outside(extracted[j].path)
                /\ \A j \in Indices(visited) : Outside(visited[j].path)
                /\ \A j \in Indices(stack) : Outside(stack[j].path)
                /\ \A j \in Indices(output) :
                       output[j].kind \in {"dir", "file", "def"}
                           => Outside(output[j].path)

\* A finished scan of a project whose venv/ directory, which holds m.py and
\* a subdirectory with b.py, was found ignored.
C1_Witness ==
    /\ pc = "done"
    /\ project.dirs[1].name = s_venv
    /\ project.dirs[1].node.files # <<>>
    /\ \E i \in Indices(calls) :
           /\ calls[i].path = join(root_path, s_venv)
           /\ calls[i].is_dir
           /\ calls[i].result

\* C2: a path other than the root whose base name is one of the built-in
\* ignore names is ignored, at any depth, whatever the .gitignore holds and
\* whatever is_dir is.
C2_BuiltinNamesIgnoredAtAnyDepth ==
    (/\ pc = "probed"
     /\ query.path # root_path
     /\ basename(query.path) \in BuiltinNames) => query.result

\* __pycache__ three levels down, probed as a file, with a .gitignore that
\* was read.
C2_Witness ==
    /\ pc = "probed"
    /\ query.path = join(root_path, join(join(s_a, s_src), s_pycache))
    /\ ~query.is_dir
    /\ gitignore.lines # <<>>
    /\ ~gitignore.fails
    /\ query.result

\* C3: when src/tmp is the only pattern loaded besides the defaults, a path
\* whose base name is tmp is ignored exactly when it is <root>/src/tmp, for
\* both values of is_dir.
C3_SeparatorPatternMatchesRelativePathOnly ==
    (/\ pc = "probed"
     /\ ignore_patterns = Append(DefaultPatterns, s_src_tmp)
     /\ basename(query.path) = s_tmp)
        => (query.result <=> query.path = join(root_path, s_src_tmp))

\* <root>/a/src/tmp probed as a directory under the single pattern src/tmp.
C3_Witness ==
    /\ pc = "probed"
    /\ ignore_patterns = Append(DefaultPatterns, s_src_tmp)
    /\ query.path = join(root_path, join(join(s_a, s_src), s_tmp))
    /\ query.is_dir
    /\ ~query.result

\* C4: if reading the .gitignore fails, on open or part-way through its
\* lines, the pattern set is exactly the default list.
C4_ReadFailureLeavesDefaultsOnly ==
    (pc # "new" /\ gitignore.exists /\ gitignore.fails)
        => ignore_patterns = DefaultPatterns

\* C5: a listed file whose read or parse fails yields no definitions and
\* raises nothing, and its own line is in the output with no definition
\* line after it; the scan is never aborted by an exception: it is at a
\* point from which its next step can be taken, or complete, and it yields
\* no directory twice, so it cannot run for ever; a finished scan has
\* visited every directory and listed every .py file found not ignored.
C5_FailedParseNeverStopsTheScan ==
    /\ pc \in {"new", "constructed", "walking", "done"}
    /\ \A i, j \in Indices(visited) :
           visited[i].path = visited[j].path => i = j
    /\ \A j \in Indices(extracted) :
           Failing(extracted[j].src) =>
               /\ extracted[j].defs = <<>>
               /\ ~extracted[j].raised
               /\ \E k \in Indices(output) :
                      /\ output[k].kind = "file"
                      /\ output[k].path = extracted[j].path
                      /\ k < Len(output) => output[k + 1].kind # "def"
    /\ pc = "done" =>
           /\ \E j \in Indices(visited) : visited[j].path = root_path
           /\ \A i \in Indices(calls) :
                  ~calls[i].result =>
                      IF calls[i].is_dir
                      THEN \E j \in Indices(visited) :
                               visited[j].path = calls[i].path
                      ELSE endswith(calls[i].path, s_dot_py) =>
                               /\ \E k \in Indices(output) :
                                      /\ output[k].kind = "file"
                                      /\ output[k].path = calls[i].path
                               /\ \E j \in Indices(extracted) :
                                      extracted[j].path = calls[i].path

\* A finished scan that met a file ast.parse rejects and, after it, listed
\* files with definitions.
C5_Witness ==
    /\ pc = "done"
    /\ \E j \in Indices(extracted) :
           /\ extracted[j].src.text = "garbled"
           /\ \E k \in Indices(extracted) :
                  k > j /\ extracted[k].defs # <<>>

\* The visibility an emitted definition shows: the padlock says private,
\* the lightning public, the package of a class neither.
Visibility(d) ==
    IF d.marker = "lock" THEN "Private"
    ELSE IF d.marker = "bolt" THEN "Public"
    ELSE "Unmarked"

NamedInternal(d) == startswith(d.name, <<"_">>)

KindShown(d) == IF d.keyword = "class" THEN "Class" ELSE "Function"

KindOf(type) ==
    IF type = "ClassDef" THEN "Class"
    ELSE IF type = "AsyncFunctionDef" THEN "AsyncFunction"
    ELSE "Function"

DefinitionNodes(tree) ==
    {i \in 1..tree.n :
        tree.type[i] \in {"FunctionDef", "AsyncFunctionDef", "ClassDef"}}

Parsed == pc = "extracted" /\ source.readable /\ source.text = "code"

Unslashed(lines) ==
    [i \in Indices(lines) |->
        IF lines[i] = s_build \o <<SEP, "\n">> THEN s_build \o <<"\n">>
        ELSE lines[i]]

\* C8: a .gitignore with the line `build/` loads the pattern set that the
\* same file with the line `build` loads, so _is_ignored answers alike for
\* every path and is_dir; and no loaded pattern ends with a separator.
C8_TrailingSeparatorStripped ==
    Loaded =>
        LET twin == load_gitignore([gitignore EXCEPT !.lines = Unslashed(@)])
        IN  /\ ignore_patterns = twin
            /\ \A i \in Indices(ignore_patterns) :
                   ~endswith(ignore_patterns[i], <<SEP>>)
            /\ pc = "probed" =>
                   query.result = is_ignored(query.path, query.is_dir,
                                             root_path, twin)

\* The file <root>/build probed as a file after a .gitignore whose only
\* line is `build/` was read.
C8_Witness ==
    /\ pc = "probed"
    /\ gitignore.lines = <<s_build \o <<SEP, "\n">>>>
    /\ ~gitignore.fails
    /\ ignore_patterns = Append(DefaultPatterns, s_build)
    /\ query.path = join(root_path, s_build)
    /\ ~query.is_dir
    /\ query.result

\* C9: a directory k levels below the root is indented by 4k spaces, a .py
\* file in a directory at level k by 4(k+1), and each of its definition
\* lines by 4(k+2), whatever the root path and the directory names are.
C9_IndentFollowsDepth ==
    \A k \in Indices(output) :
        output[k].kind \in {"dir", "file", "def"}
            => output[k].indent = IndentWidth * output[k].depth

\* C10: in one scan _is_ignored is called at most once per path, never for
\* the root, once as a directory for each subdirectory and once as a file
\* for each file of every directory os.walk yields, and for nothing else;
\* every call reads the same pattern set.
C10_EachPathQueriedOnce ==
    /\ \A i, j \in Indices(calls) : calls[i].path = calls[j].path => i = j
    /\ \A i \in Indices(calls) :
           /\ calls[i].path # root_path
           /\ calls[i].patterns = ignore_patterns
    /\ \A v \in Indices(visited) :
           /\ \A d \in Indices(visited[v].node.dirs) :
                  \E i \in Indices(calls) :
                      /\ calls[i].path = join(visited[v].path,
                                              visited[v].node.dirs[d].name)
                      /\ calls[i].is_dir
           /\ \A f \in Indices(visited[v].node.files) :
                  \E i \in Indices(calls) :
                      /\ calls[i].path = join(visited[v].path,
                                              visited[v].node.files[f].name)
                      /\ ~calls[i].is_dir
    /\ \A i \in Indices(calls) :
           \E v \in Indices(visited) :
               calls[i].path \in
                   {join(visited[v].path, visited[v].node.dirs[d].name) :
                       d \in Indices(visited[v].node.dirs)}
                   \cup {join(visited[v].path, visited[v].node.files[f].name) :
                       f \in Indices(visited[v].node.files)}

\* A finished scan that walked three levels and queried directories and
\* files, some of them ignored.
C10_Witness ==
    /\ pc = "done"
    /\ Len(visited) = 4
    /\ \E i \in Indices(calls) : calls[i].is_dir /\ ~calls[i].result
    /\ \E i \in Indices(calls) : ~calls[i].is_dir /\ calls[i].result

====
